---------------------------- MODULE Spec2Model ----------------------------
(***************************************************************************)
(* Model of the time-tracking cleaning pipeline (py_functions/             *)
(* cleaning_utils.py) and of the warehouse writer (py_functions/           *)
(* gbq_utils.py).                                                          *)
(*                                                                         *)
(* Strings are sequences of one-character strings, so that the soundex     *)
(* code and the fuzz.ratio score of two labels are computed, not assumed.  *)
(* A dataset is a bag of rows; the 'timestamp' column is left out (no      *)
(* operation modelled here reads it).                                      *)
(***************************************************************************)
EXTENDS Integers, Sequences, FiniteSets, Bags, TLC

\* ------------------------------------------------------------------------
\* Bounds of the model
\* ------------------------------------------------------------------------
MaxRows == 4

\* ------------------------------------------------------------------------
\* Characters and their ordering (code points)
\* ------------------------------------------------------------------------
Digits == <<"0", "1", "2", "3", "4", "5", "6", "7", "8", "9">>
Lower == <<"a", "b", "c", "d", "e", "f", "g", "h", "i", "j", "k", "l", "m",
           "n", "o", "p", "q", "r", "s", "t", "u", "v", "w", "x", "y", "z">>
Upper == <<"A", "B", "C", "D", "E", "F", "G", "H", "I", "J", "K", "L", "M",
           "N", "O", "P", "Q", "R", "S", "T", "U", "V", "W", "X", "Y", "Z">>

IndexIn(c, seq) == IF \E i \in DOMAIN seq : seq[i] = c
                   THEN CHOOSE i \in DOMAIN seq : seq[i] = c
                   ELSE 0

\* ord(c) for the characters that occur in labels and soundex codes
Ord(c) == IF c = "-" THEN 45
          ELSE IF IndexIn(c, Digits) > 0 THEN 47 + IndexIn(c, Digits)
          ELSE IF IndexIn(c, Upper) > 0 THEN 64 + IndexIn(c, Upper)
          ELSE 96 + IndexIn(c, Lower)

\* str.upper() on one character
ToUpper(c) == IF IndexIn(c, Lower) > 0 THEN Upper[IndexIn(c, Lower)] ELSE c

\* s < t for Python strings: lexicographic on code points, a proper prefix first
RECURSIVE StrLess(_, _)
StrLess(s, t) ==
    IF t = <<>> THEN FALSE
    ELSE IF s = <<>> THEN TRUE
    ELSE IF Head(s) # Head(t) THEN Ord(Head(s)) < Ord(Head(t))
    ELSE StrLess(Tail(s), Tail(t))

\* ------------------------------------------------------------------------
\* jellyfish.soundex, as imported by cleaning_utils.py
\* ------------------------------------------------------------------------
\* the digit class of an (upper-case) letter, "" when it has none
SoundexDigit(c) ==
    IF c \in {"B", "F", "P", "V"} THEN "1"
    ELSE IF c \in {"C", "G", "J", "K", "Q", "S", "X", "Z"} THEN "2"
    ELSE IF c \in {"D", "T"} THEN "3"
    ELSE IF c = "L" THEN "4"
    ELSE IF c \in {"M", "N"} THEN "5"
    ELSE IF c = "R" THEN "6"
    ELSE ""

SoundexLen == 4

\* the loop over s[1:]: result so far, last digit class seen, rest of the string
RECURSIVE SoundexScan(_, _, _)
SoundexScan(result, last, rest) ==
    IF Len(result) = SoundexLen \/ rest = <<>> THEN result
    ELSE LET letter == ToUpper(Head(rest))
             sub == SoundexDigit(letter)
         IN  IF sub # ""
             THEN SoundexScan(IF sub # last THEN Append(result, sub) ELSE result,
                              sub, Tail(rest))
             ELSE SoundexScan(result,
                              IF letter \in {"H", "W"} THEN last ELSE "",
                              Tail(rest))

RECURSIVE PadZeros(_)
PadZeros(result) ==
    IF Len(result) >= SoundexLen THEN result ELSE PadZeros(Append(result, "0"))

soundex(s) ==
    IF s = <<>> THEN <<>>
    ELSE PadZeros(SoundexScan(<<ToUpper(Head(s))>>,
                              SoundexDigit(ToUpper(Head(s))), Tail(s)))

\* ------------------------------------------------------------------------
\* fuzz.ratio, as called by calculate_similarity: 100 * 2M/T rounded, M the
\* size of the matching blocks of difflib.SequenceMatcher
\* ------------------------------------------------------------------------
\* length of the common run of a and b starting at a[i], b[j], inside the windows
RECURSIVE RunLen(_, _, _, _, _, _)
RunLen(a, b, i, j, ahi, bhi) ==
    IF i > ahi \/ j > bhi \/ a[i] # b[j] THEN 0
    ELSE 1 + RunLen(a, b, i + 1, j + 1, ahi, bhi)

\* find_longest_match on a[alo..ahi], b[blo..bhi]: the longest block, the one
\* starting earliest in a and then earliest in b among the longest
LongestMatch(a, b, alo, ahi, blo, bhi) ==
    LET starts == (alo..ahi) \X (blo..bhi)
        k(p) == RunLen(a, b, p[1], p[2], ahi, bhi)
        best == CHOOSE p \in starts :
                    \A q \in starts :
                        \/ k(q) < k(p)
                        \/ k(q) = k(p) /\ (p[1] < q[1] \/ (p[1] = q[1] /\ p[2] <= q[2]))
    IN  [i |-> best[1], j |-> best[2], size |-> k(best)]

\* get_matching_blocks: total size of the blocks found to the left and right
RECURSIVE MatchSize(_, _, _, _, _, _)
MatchSize(a, b, alo, ahi, blo, bhi) ==
    IF alo > ahi \/ blo > bhi THEN 0
    ELSE LET m == LongestMatch(a, b, alo, ahi, blo, bhi)
         IN  IF m.size = 0 THEN 0
             ELSE m.size
                  + MatchSize(a, b, alo, m.i - 1, blo, m.j - 1)
                  + MatchSize(a, b, m.i + m.size, ahi, m.j + m.size, bhi)

\* int(round(100 * 2M/T)), Python's round: halves go to the even neighbour
RoundedPercent(m2, t) ==
    LET q == (100 * m2) \div t
        r == (100 * m2) % t
    IN  IF 2 * r < t THEN q
        ELSE IF 2 * r > t THEN q + 1
        ELSE IF q % 2 = 0 THEN q ELSE q + 1

\* the missing value pandas puts in 'shifted' for the first record
NaN == <<>>

\* a missing operand gives no score over the threshold (0 here); equal strings
\* give 100 without matching
ratio(s1, s2) ==
    IF s1 = NaN \/ s2 = NaN THEN 0
    ELSE IF s1 = s2 THEN 100
    ELSE RoundedPercent(2 * MatchSize(s1, s2, 1, Len(s1), 1, Len(s2)),
                        Len(s1) + Len(s2))

calculate_similarity(entry1, entry2) == ratio(entry1, entry2)

\* ------------------------------------------------------------------------
\* The datasets the pipeline is run on
\* ------------------------------------------------------------------------
hirng == <<"h", "i", "r", "n", "g">>
hiring == <<"h", "i", "r", "i", "n", "g">>
misc == <<"m", "i", "s", "c">>
miscellaneous == <<"m", "i", "s", "c", "e", "l", "l", "a", "n", "e", "o", "u", "s">>
opsadadmin == <<"o", "p", "s", "a", "d", "a", "d", "m", "i", "n">>
opsandadmin == <<"o", "p", "s", "a", "n", "d", "a", "d", "m", "i", "n">>
opdandadmin == <<"o", "p", "d", "a", "n", "d", "a", "d", "m", "i", "n">>
project_30 == <<"p", "r", "o", "j", "e", "c", "t", "-", "3", "0">>
project_31 == <<"p", "r", "o", "j", "e", "c", "t", "-", "3", "1">>
traffic == <<"t", "r", "a", "f", "f", "i", "c">>
transit == <<"t", "r", "a", "n", "s", "i", "t">>

ProjectNames == {hirng, hiring, misc, opsadadmin, opsandadmin, opdandadmin,
                 project_30, project_31, traffic}

NULL == "null"

Row(user, hours, project) == [user |-> user, hours |-> hours, project |-> project]

\* one checked-in row per project name, a row without user, a row without hours
RowKinds == {Row("u1", 1, p) : p \in ProjectNames}
            \cup {Row(NULL, 1, project_31), Row("u1", 0, opdandadmin)}

RECURSIVE DatasetsOfSize(_)
DatasetsOfSize(n) ==
    IF n = 0 THEN {EmptyBag}
    ELSE {d (+) SetToBag({r}) : d \in DatasetsOfSize(n - 1), r \in RowKinds}

Datasets == UNION {DatasetsOfSize(n) : n \in 0..MaxRows}

\* the static override table of the module
hard_coded_dict == (traffic :> transit) @@ (misc :> miscellaneous)

\* ------------------------------------------------------------------------
\* State
\* ------------------------------------------------------------------------
VARIABLES
    pc,               \* the statement of cleaning_process that runs next
    df_raw,           \* the loaded dataset
    projects_df,      \* the records of construct_projects_df, in their order
    pos,              \* position of iterrows in generate_correction_dict
    df_temp,          \* the buffer of generate_correction_dict
    correction_dict,  \* the dictionary being built
    groups,           \* the buffers handed to process_group so far
    df,               \* the dataset returned by clean_df
    wpc,              \* the statement of the warehouse writer that runs next
    entry,            \* the function the writer was entered through
    nrows,            \* len(df) of the dataset handed to the writer
    calls,            \* the warehouse calls the writer has made so far
    dataset_exists,   \* the target dataset is among client.list_datasets()
    remote_state,     \* the load job's state at the warehouse
    job_state,        \* job.state, as of the last response or reload()
    job_failed,       \* the load job ended with an error
    num_rows,         \* table.num_rows of the target table
    result            \* the (success, error) tuple returned

cvars == <<pc, df_raw, projects_df, pos, df_temp, correction_dict, groups, df>>
wvars == <<wpc, entry, nrows, calls, dataset_exists, remote_state, job_state,
           job_failed, num_rows, result>>
vars == <<cvars, wvars>>

EmptyDict == [k \in {} |-> k]

\* ------------------------------------------------------------------------
\* construct_projects_df
\* ------------------------------------------------------------------------
RECURSIVE SumOver(_, _)
SumOver(f, S) ==
    IF S = {} THEN 0
    ELSE LET e == CHOOSE e \in S : TRUE IN f[e] + SumOver(f, S \ {e})

\* df.project.value_counts(): the distinct project names and their row counts
ValueCountsIndex(d) == {r.project : r \in BagToSet(d)}
ValueCounts(d) ==
    [p \in ValueCountsIndex(d) |->
        SumOver(d, {r \in BagToSet(d) : r.project = p})]

RECURSIVE Orderings(_)
Orderings(S) ==
    IF S = {} THEN {<<>>}
    ELSE UNION {{<<e>> \o t : t \in Orderings(S \ {e})} : e \in S}

\* sort_values(by=['soundex','project']): 'project' holds the count after
\* value_counts().reset_index(), the name is in 'index'
SortBeforeByName(r1, r2) ==
    \/ StrLess(r1.soundex, r2.soundex)
    \/ r1.soundex = r2.soundex /\ ~StrLess(r2.index, r1.index)

SortBefore(r1, r2) ==
    \/ StrLess(r1.soundex, r2.soundex)
    \/ r1.soundex = r2.soundex /\ r1.project <= r2.project

IsSorted(seq) == \A i \in 1..(Len(seq) - 1) : SortBefore(seq[i], seq[i + 1])

\* the orders sort_values can leave the records in (records equal on both keys
\* keep the order value_counts gave them, which depends on the rows' order)
SortedRecords(d) ==
    LET counts == ValueCounts(d)
        rec(p) == [index |-> p, project |-> counts[p], soundex |-> soundex(p)]
    IN  {seq \in Orderings({rec(p) : p \in DOMAIN counts}) : IsSorted(seq)}

\* shift(1) on 'index', then calculate_similarity(row['index'], row['shifted'])
WithSimilarity(seq) ==
    [i \in 1..Len(seq) |->
        LET shifted == IF i = 1 THEN NaN ELSE seq[i - 1].index
        IN  [index |-> seq[i].index, project |-> seq[i].project,
             soundex |-> seq[i].soundex, shifted |-> shifted,
             similarity_score |-> calculate_similarity(seq[i].index, shifted)]]

construct_projects_df(d) == {WithSimilarity(seq) : seq \in SortedRecords(d)}

\* ------------------------------------------------------------------------
\* process_group
\* ------------------------------------------------------------------------
SeqToSet(seq) == {seq[i] : i \in DOMAIN seq}

SortedDescendingByName(rows) ==
    {seq \in Orderings(SeqToSet(rows)) :
        \A i \in 1..(Len(seq) - 1) : ~StrLess(seq[i].index, seq[i + 1].index)}

\* sort_values(by='project', ascending=False): the orders of the buffer's rows
\* by descending count (rows of equal count in either order)
SortedDescending(rows) ==
    {seq \in Orderings(SeqToSet(rows)) :
        \A i \in 1..(Len(seq) - 1) : seq[i].project >= seq[i + 1].project}

ElementsOfIndex(rows) == {rows[i].index : i \in DOMAIN rows}

\* set(df_temp['index'].tolist() + df_temp['shifted'].tolist())
Elements(rows) ==
    {rows[i].index : i \in DOMAIN rows} \cup {rows[i].shifted : i \in DOMAIN rows}

\* correction_dict[entry] = df_temp['index'].iloc[0] for every entry
AssignAll(dict, elements, value) ==
    [k \in DOMAIN dict \cup elements |-> IF k \in elements THEN value ELSE dict[k]]

process_group(rows, dict) ==
    {AssignAll(dict, Elements(sorted), sorted[1].index) :
        sorted \in SortedDescending(rows)}

\* ------------------------------------------------------------------------
\* generate_correction_dict
\* ------------------------------------------------------------------------
Threshold == 90

IsSimilarFrom90(score) == score >= Threshold

\* row['similarity_score'] > 90
IsSimilar(score) == score > Threshold

Outcome(buffer, dict, handed) ==
    [df_temp |-> buffer, correction_dict |-> dict, handed |-> handed]

LoopBodyKeepsRow(row, buffer, dict) ==
    IF IsSimilar(row.similarity_score)
    THEN {Outcome(Append(buffer, row), dict, <<>>)}
    ELSE IF Len(buffer) > 0
    THEN {Outcome(<<row>>, d, <<buffer>>) : d \in process_group(buffer, dict)}
    ELSE {Outcome(buffer, dict, <<>>)}

\* one iteration of the loop over df.iterrows()
LoopBody(row, buffer, dict) ==
    IF IsSimilar(row.similarity_score)
    THEN {Outcome(Append(buffer, row), dict, <<>>)}
    ELSE IF Len(buffer) > 0
    THEN {Outcome(<<>>, d, <<buffer>>) : d \in process_group(buffer, dict)}
    ELSE {Outcome(buffer, dict, <<>>)}

AfterLoopNoFlush(buffer, dict) == {Outcome(buffer, dict, <<>>)}

\* after the loop: if df_temp: process_group(df_temp, correction_dict)
AfterLoop(buffer, dict) ==
    IF buffer # <<>>
    THEN {Outcome(buffer, d, <<buffer>>) : d \in process_group(buffer, dict)}
    ELSE {Outcome(buffer, dict, <<>>)}

\* ------------------------------------------------------------------------
\* clean_df
\* ------------------------------------------------------------------------
apply_correction(dict, value) ==
    IF value \in DOMAIN dict THEN dict[value] ELSE value

\* df[df['user'].notnull()], then df[df['hours'] > 0]
Kept(d) == {r \in BagToSet(d) : r.user # NULL /\ r.hours > 0}

clean_df(d, dict) ==
    LET corrected(r) == Row(r.user, r.hours, apply_correction(dict, r.project))
        out == {corrected(r) : r \in Kept(d)}
    IN  [o \in out |-> SumOver(d, {r \in Kept(d) : corrected(r) = o})]

\* ------------------------------------------------------------------------
\* cleaning_process, statement by statement
\* ------------------------------------------------------------------------
None == "None"

\* no (success, error) tuple has been returned yet
NoResult == <<>>

\* the writer before it is entered
WriterIdle ==
    /\ wpc = "idle"
    /\ entry = None
    /\ nrows = 0
    /\ calls = {}
    /\ dataset_exists = FALSE
    /\ remote_state = None
    /\ job_state = None
    /\ job_failed = FALSE
    /\ num_rows = 0
    /\ result = NoResult

Init ==
    /\ pc = "load_csv"
    /\ df_raw = EmptyBag
    /\ projects_df = <<>>
    /\ pos = 1
    /\ df_temp = <<>>
    /\ correction_dict = EmptyDict
    /\ groups = <<>>
    /\ df = EmptyBag
    /\ WriterIdle

LoadCsv ==
    /\ pc = "load_csv"
    /\ df_raw' \in Datasets
    /\ pc' = "construct_projects_df"
    /\ UNCHANGED <<projects_df, pos, df_temp, correction_dict, groups, df>>
    /\ UNCHANGED wvars

ConstructProjectsDf ==
    /\ pc = "construct_projects_df"
    /\ projects_df' \in construct_projects_df(df_raw)
    /\ pc' = "generate_correction_dict"
    /\ UNCHANGED <<df_raw, pos, df_temp, correction_dict, groups, df>>
    /\ UNCHANGED wvars

ScanRow ==
    /\ pc = "generate_correction_dict"
    /\ pos <= Len(projects_df)
    /\ \E o \in LoopBody(projects_df[pos], df_temp, correction_dict) :
          /\ df_temp' = o.df_temp
          /\ correction_dict' = o.correction_dict
          /\ groups' = groups \o o.handed
    /\ pos' = pos + 1
    /\ UNCHANGED <<pc, df_raw, projects_df, df>>
    /\ UNCHANGED wvars

ScanEnd ==
    /\ pc = "generate_correction_dict"
    /\ pos > Len(projects_df)
    /\ \E o \in AfterLoop(df_temp, correction_dict) :
          /\ df_temp' = o.df_temp
          /\ correction_dict' = o.correction_dict
          /\ groups' = groups \o o.handed
    /\ pc' = "clean_df"
    /\ UNCHANGED <<df_raw, projects_df, pos, df>>
    /\ UNCHANGED wvars

CleanDf ==
    /\ pc = "clean_df"
    /\ df' = clean_df(df_raw, correction_dict)
    /\ pc' = "done"
    /\ UNCHANGED <<df_raw, projects_df, pos, df_temp, correction_dict, groups>>
    /\ UNCHANGED wvars

Next == LoadCsv \/ ConstructProjectsDf \/ ScanRow \/ ScanEnd \/ CleanDf

Spec == Init /\ [][Next]_vars

\* ------------------------------------------------------------------------
\* The warehouse writer: write_process, check_dataset and bq_write
\* ------------------------------------------------------------------------
NoDataframe == "No dataframe to be transferred"

\* the cleaning pipeline at rest while the writer runs
CleanerIdle ==
    /\ pc = "idle"
    /\ df_raw = EmptyBag
    /\ projects_df = <<>>
    /\ pos = 1
    /\ df_temp = <<>>
    /\ correction_dict = EmptyDict
    /\ groups = <<>>
    /\ df = EmptyBag

\* a dataset of any size is handed to bq_write or to write_process
WriteInit ==
    /\ CleanerIdle
    /\ entry \in {"bq_write", "write_process"}
    /\ wpc = IF entry = "write_process" THEN "secrets_configs" ELSE "bq_write"
    /\ nrows \in 0..MaxRows
    /\ calls = {}
    /\ dataset_exists \in BOOLEAN
    /\ remote_state = None
    /\ job_state = None
    /\ job_failed = FALSE
    /\ num_rows = 0
    /\ result = NoResult

\* write_process: dataset_name, table_name = secrets_configs()
SecretsConfigs ==
    /\ wpc = "secrets_configs"
    /\ wpc' = "authenticate_bq"
    /\ UNCHANGED <<entry, nrows, calls, dataset_exists, remote_state, job_state,
                   job_failed, num_rows, result>>
    /\ UNCHANGED cvars

\* write_process: client, credentials = authenticate_bq(secret)
AuthenticateBq ==
    /\ wpc = "authenticate_bq"
    /\ calls' = calls \cup {"authenticate_bq"}
    /\ wpc' = "check_dataset"
    /\ UNCHANGED <<entry, nrows, dataset_exists, remote_state, job_state,
                   job_failed, num_rows, result>>
    /\ UNCHANGED cvars

\* check_dataset: list the datasets, create the target when it is not listed
CheckDataset ==
    /\ wpc = "check_dataset"
    /\ calls' = calls \cup (IF dataset_exists
                            THEN {"list_datasets"}
                            ELSE {"list_datasets", "create_dataset"})
    /\ dataset_exists' = TRUE
    /\ wpc' = "bq_write"
    /\ UNCHANGED <<entry, nrows, remote_state, job_state, job_failed, num_rows,
                   result>>
    /\ UNCHANGED cvars

\* bq_write up to the loop: the zero-row return, else the load job is started
BqWriteStart ==
    /\ wpc = "bq_write"
    /\ IF nrows = 0
       THEN /\ result' = <<FALSE, NoDataframe>>
            /\ wpc' = "returned"
            /\ UNCHANGED <<calls, remote_state, job_state>>
       ELSE /\ calls' = calls \cup {"load_table_from_dataframe"}
            /\ remote_state' = "PENDING"
            /\ job_state' = "PENDING"
            /\ wpc' = "while"
            /\ UNCHANGED result
    /\ UNCHANGED <<entry, nrows, dataset_exists, job_failed, num_rows>>
    /\ UNCHANGED cvars

\* the warehouse runs the load job; at DONE it has failed or filled the table
JobAdvance ==
    /\ remote_state \in {"PENDING", "RUNNING"}
    /\ \/ /\ remote_state = "PENDING"
          /\ remote_state' = "RUNNING"
          /\ UNCHANGED <<job_failed, num_rows>>
       \/ /\ remote_state' = "DONE"
          /\ job_failed' \in BOOLEAN
          /\ num_rows' \in IF job_failed' THEN {0} ELSE 0..nrows
    /\ UNCHANGED <<wpc, entry, nrows, calls, dataset_exists, job_state, result>>
    /\ UNCHANGED cvars

LoopContinuesWhilePending(state) == state = "PENDING"

\* while job.state != "DONE"
LoopContinues(state) == state # "DONE"

\* one turn of the loop: time.sleep(2); job.reload()
Reload ==
    /\ wpc = "while"
    /\ LoopContinues(job_state)
    /\ calls' = calls \cup {"reload"}
    /\ job_state' = remote_state
    /\ UNCHANGED <<wpc, entry, nrows, dataset_exists, remote_state, job_failed,
                   num_rows, result>>
    /\ UNCHANGED cvars

\* the loop is left; print(job.result()) waits for the job's end and raises
\* when the job failed
JobResult ==
    /\ wpc = "while"
    /\ ~LoopContinues(job_state)
    /\ remote_state = "DONE"
    /\ calls' = calls \cup {"result"}
    /\ job_state' = "DONE"
    /\ wpc' = IF job_failed THEN "raised" ELSE "get_table"
    /\ UNCHANGED <<entry, nrows, dataset_exists, remote_state, job_failed,
                   num_rows, result>>
    /\ UNCHANGED cvars

\* success = (table.num_rows == len(df)); return success, error
Success(table_rows, n) == table_rows = n

GetTable ==
    /\ wpc = "get_table"
    /\ calls' = calls \cup {"get_table"}
    /\ result' = <<Success(num_rows, nrows), None>>
    /\ wpc' = "returned"
    /\ UNCHANGED <<entry, nrows, dataset_exists, remote_state, job_state,
                   job_failed, num_rows>>
    /\ UNCHANGED cvars

WriterStep ==
    \/ SecretsConfigs
    \/ AuthenticateBq
    \/ CheckDataset
    \/ BqWriteStart
    \/ Reload
    \/ JobResult
    \/ GetTable

WriteNext == WriterStep \/ JobAdvance

\* the writer is one sequential Python call: it always takes its next step
WriteSpec == WriteInit /\ [][WriteNext]_vars /\ WF_vars(WriterStep)

\* ------------------------------------------------------------------------
\* Properties of the cleaning pipeline (checked under Spec)
\* ------------------------------------------------------------------------
\* construct_projects_df has returned
Constructed == pc \in {"generate_correction_dict", "clean_df", "done"}

\* generate_correction_dict has returned
Built == pc \in {"clean_df", "done"}

Positions == 1..Len(projects_df)

Score(k) == projects_df[k].similarity_score

Name(k) == projects_df[k].index

\* records lo..hi are a run: at least two records, all after the first over 90
IsRun(lo, hi) == lo < hi /\ \A k \in (lo + 1)..hi : Score(k) > 90

\* a run that cannot be extended on either side
IsMaximalRun(lo, hi) ==
    /\ IsRun(lo, hi)
    /\ Score(lo) <= 90
    /\ hi = Len(projects_df) \/ Score(hi + 1) <= 90

RunNames(lo, hi) == {Name(k) : k \in lo..hi}

\* every name of the run is a key, all mapped to one name of the run
SharesCanonical(lo, hi) ==
    /\ RunNames(lo, hi) \subseteq DOMAIN correction_dict
    /\ \E c \in RunNames(lo, hi) :
          \A n \in RunNames(lo, hi) : correction_dict[n] = c

\* C1 as amended: for every MAXIMAL run of consecutive records whose records
\* after the first all score > 90, the returned dictionary has every name of
\* the run as a key, the run's first record included, and maps them all to one
\* common value that is itself a name of the run.
C1_MaximalRunSharesCanonical ==
    Built => \A lo \in Positions : \A hi \in Positions :
                IsMaximalRun(lo, hi) => SharesCanonical(lo, hi)

\* the counts decide every group's canonical: one row has the highest count
CountsDecide ==
    \A g \in DOMAIN groups : \E j \in DOMAIN groups[g] :
        \A i \in DOMAIN groups[g] \ {j} : groups[g][i].project < groups[g][j].project

\* C1 as stated: the same for ANY run, maximal or not (taken where the counts
\* decide the canonical, so that no choice among equal counts is involved).
C1_AnyRunSharesCanonical ==
    (Built /\ CountsDecide) => \A lo \in Positions : \A hi \in Positions :
                IsRun(lo, hi) => SharesCanonical(lo, hi)

C1_Witness ==
    /\ pc = "done"
    /\ \E lo \in Positions : \E hi \in Positions :
          /\ IsMaximalRun(lo, hi)
          /\ RunNames(lo, hi) = {opsandadmin, opsadadmin, opdandadmin}

\* record k is a row of a buffer that was handed to process_group
InSomeGroup(k) ==
    \E g \in DOMAIN groups : \E j \in DOMAIN groups[g] :
        groups[g][j] = projects_df[k]

SameValue(a, b) ==
    /\ a \in DOMAIN correction_dict
    /\ b \in DOMAIN correction_dict
    /\ correction_dict[a] = correction_dict[b]

\* C2: the threshold is strictly greater than 90. An adjacent pair scoring
\* exactly 90 is never merged: its record enters no group and the two names
\* never share a value. An adjacent pair scoring 91 is always merged: both
\* names are keys with the same value.
C2_ThresholdStrictlyAbove90 ==
    Built => \A k \in Positions \ {1} :
                /\ Score(k) = 90 =>
                      ~InSomeGroup(k) /\ ~SameValue(Name(k - 1), Name(k))
                /\ Score(k) = 91 =>
                      InSomeGroup(k) /\ SameValue(Name(k - 1), Name(k))

C2_Witness ==
    /\ pc = "done"
    /\ \E k \in Positions : Score(k) = 90
    /\ \E k \in Positions : Score(k) = 91

\* C3: correction is idempotent. For every name L, correcting the corrected
\* name gives the corrected name again; every value of the dictionary is
\* either no key or a key mapped to itself.
C3_CorrectionIdempotent ==
    Built =>
        /\ \A L \in ProjectNames \cup DOMAIN correction_dict :
              apply_correction(correction_dict, apply_correction(correction_dict, L))
                  = apply_correction(correction_dict, L)
        /\ \A k \in DOMAIN correction_dict :
              correction_dict[k] \in DOMAIN correction_dict
                  => correction_dict[correction_dict[k]] = correction_dict[k]

C3_Witness ==
    /\ pc = "done"
    /\ Len(groups) = 2
    /\ \E k \in DOMAIN correction_dict : correction_dict[k] # k

\* the end-to-end scenario: one checked-in row for each of the four projects
ScenarioRows == SetToBag({Row("u1", 1, traffic), Row("u1", 1, misc),
                          Row("u1", 1, project_30), Row("u1", 1, project_31)})

ScenarioExpected == SetToBag({Row("u1", 1, hard_coded_dict[traffic]),
                              Row("u1", 1, hard_coded_dict[misc]),
                              Row("u1", 1, project_30), Row("u1", 1, project_31)})

\* C4: the static override table is applied in addition to the computed
\* dictionary. After the pipeline ran on rows with projects traffic, misc,
\* project-30 and project-31, the output rows carry transit, miscellaneous,
\* project-30 and project-31.
C4_StaticOverridesApplied ==
    (pc = "done" /\ df_raw = ScenarioRows) => df = ScenarioExpected

\* what the pipeline returns on the scenario: the rows unchanged
C4_Witness ==
    /\ pc = "done"
    /\ df_raw = ScenarioRows
    /\ df = ScenarioRows
    /\ \E k \in Positions : Name(k) = project_31 /\ Score(k) = 90

\* the value process_group gave to the names of group g
CanonicalOf(g) == correction_dict[groups[g][1].index]

GroupNames(g) == {groups[g][j].index : j \in DOMAIN groups[g]}

\* C6 as amended: the canonical choice is frequency-based. For every group,
\* process_group picks the name of a row of the group with the highest
\* occurrence count among the group's rows (the rows scoring > 90; the run's
\* first record is no candidate).
C6_CanonicalHasHighestCount ==
    Built => \A g \in DOMAIN groups :
                /\ CanonicalOf(g) \in GroupNames(g)
                /\ \A n \in GroupNames(g) :
                      ValueCounts(df_raw)[n] <= ValueCounts(df_raw)[CanonicalOf(g)]

\* C6 as stated: the canonical is the lexicographically greatest name among
\* the group's rows, whatever the counts (taken where the counts decide the
\* canonical, so that no choice among equal counts is involved).
C6_CanonicalIsGreatestName ==
    (Built /\ CountsDecide) => \A g \in DOMAIN groups :
                /\ CanonicalOf(g) \in GroupNames(g)
                /\ \A n \in GroupNames(g) : ~StrLess(CanonicalOf(g), n)

C6_Witness ==
    /\ pc = "done"
    /\ \E g \in DOMAIN groups :
          /\ Len(groups[g]) = 2
          /\ \E n \in GroupNames(g) :
                /\ StrLess(CanonicalOf(g), n)
                /\ ValueCounts(df_raw)[n] < ValueCounts(df_raw)[CanonicalOf(g)]

\* C7 as amended: construct_projects_df outputs one record per distinct name,
\* ordered ascending by (soundex code, occurrence count): of two consecutive
\* records the earlier has a smaller code, or an equal code and a count that
\* is not greater.
C7_SortedBySoundexThenCount ==
    Constructed =>
        /\ {Name(k) : k \in Positions} = ValueCountsIndex(df_raw)
        /\ Len(projects_df) = Cardinality(ValueCountsIndex(df_raw))
        /\ \A k \in Positions \ {1} :
              \/ StrLess(soundex(Name(k - 1)), soundex(Name(k)))
              \/ /\ soundex(Name(k - 1)) = soundex(Name(k))
                 /\ ValueCounts(df_raw)[Name(k - 1)] <= ValueCounts(df_raw)[Name(k)]

\* the sort keys decide the order: no two records agree on code and count
KeysDecide ==
    \A i \in Positions : \A j \in Positions \ {i} :
        ~(projects_df[i].soundex = projects_df[j].soundex
            /\ projects_df[i].project = projects_df[j].project)

\* C7 as stated: ordered ascending by (soundex code, name) (taken where the
\* sort keys decide the order, so that the rows' order plays no part).
C7_SortedBySoundexThenName ==
    (Constructed /\ KeysDecide) =>
        /\ {Name(k) : k \in Positions} = ValueCountsIndex(df_raw)
        /\ Len(projects_df) = Cardinality(ValueCountsIndex(df_raw))
        /\ \A k \in Positions \ {1} :
              \/ StrLess(soundex(Name(k - 1)), soundex(Name(k)))
              \/ /\ soundex(Name(k - 1)) = soundex(Name(k))
                 /\ StrLess(Name(k - 1), Name(k))

C7_Witness ==
    /\ Constructed
    /\ \E k \in Positions \ {1} :
          /\ soundex(Name(k - 1)) = soundex(Name(k))
          /\ StrLess(Name(k), Name(k - 1))
          /\ ValueCounts(df_raw)[Name(k - 1)] < ValueCounts(df_raw)[Name(k)]

\* C8: a name is only ever mapped to a canonical name that has the same
\* soundex code.
C8_SameSoundexOnly ==
    Built => \A k \in DOMAIN correction_dict :
                soundex(k) = soundex(correction_dict[k])

\* the rows after the first of every maximal run
RunTails ==
    {SubSeq(projects_df, r[1] + 1, r[2]) :
        r \in {q \in Positions \X Positions : IsMaximalRun(q[1], q[2])}}

GroupElements(g) ==
    {groups[g][j].index : j \in DOMAIN groups[g]}
    \cup {groups[g][j].shifted : j \in DOMAIN groups[g]}

\* C9: the groups handed to process_group are exactly the maximal runs of
\* records scoring > 90, each with the predecessor of its first record, a run
\* that reaches the end of the input included; no name belongs to two groups,
\* and the keys of the dictionary are the names of the groups.
C9_GroupsAreMaximalRuns ==
    Built =>
        /\ SeqToSet(groups) = RunTails
        /\ Len(groups) = Cardinality(RunTails)
        /\ \A g \in DOMAIN groups : \A h \in DOMAIN groups :
              g # h => GroupElements(g) \cap GroupElements(h) = {}
        /\ DOMAIN correction_dict = UNION {GroupElements(g) : g \in DOMAIN groups}

C9_Witness ==
    /\ pc = "done"
    /\ Len(groups) = 2
    /\ Score(Len(projects_df)) > 90
    /\ \E k \in Positions \ {1} :
          /\ k < Len(projects_df)
          /\ Score(k - 1) > 90
          /\ Score(k) <= 90
          /\ Score(k + 1) > 90

\* ------------------------------------------------------------------------
\* Properties of the warehouse writer (checked under WriteSpec)
\* ------------------------------------------------------------------------
\* C5: a write of a zero-row dataset, through bq_write or write_process,
\* returns (False, 'No dataframe to be transferred') and no warehouse call
\* was made before that.
C5_EmptyWriteMakesNoCall ==
    (wpc = "returned" /\ nrows = 0) =>
        result = <<FALSE, NoDataframe>> /\ calls = {}

C5_Witness ==
    /\ wpc = "returned"
    /\ nrows = 0
    /\ entry = "bq_write"
    /\ result = <<FALSE, NoDataframe>>
    /\ calls = {}

Ended == wpc \in {"returned", "raised"}

\* C10: for a non-empty dataset bq_write returns only after the job's state
\* has become DONE; while job.state is not DONE it stays in the loop; once the
\* job is DONE at the warehouse bq_write ends; and success is True only when
\* the table's row count read after DONE equals the number of input rows.
C10_ReportsAfterDone ==
    /\ []((wpc = "returned" /\ nrows > 0) =>
            /\ job_state = "DONE"
            /\ remote_state = "DONE"
            /\ result[1] = TRUE => num_rows = nrows)
    /\ [][(wpc = "while" /\ job_state # "DONE") => wpc' = "while"]_vars
    /\ (remote_state = "DONE") ~> Ended

C10_Witness ==
    /\ wpc = "returned"
    /\ nrows > 0
    /\ result = <<TRUE, None>>
    /\ "reload" \in calls

=============================================================================
